---------------------------- MODULE Spec2Model ----------------------------
(***************************************************************************)
(* State-machine model of the LiveConversation component                   *)
(* (src/components/LiveConversation.tsx): the refs and React state of the  *)
(* component, the resources every startConversation call acquires, the     *)
(* callbacks of the remote channel and the playback timeline.              *)
(*                                                                         *)
(* Every handler of the component runs to completion on the single         *)
(* JavaScript thread; an action below is one such run, from its entry (or  *)
(* from the await it resumes at) to its next await or its end.             *)
(* Time is counted in tenths of a second.                                  *)
(***************************************************************************)
EXTENDS Naturals, Sequences, FiniteSets

\* ----------------------------------------------------------------- bounds
\* startConversation calls in one run of the component: of the lifecycle
\* specification, and of the specification of overlapping starts.
MaxStarts == 1
MaxRaceStarts == 2
\* Server messages delivered in one run: of the scheduling specification and
\* of the playback specification.
MaxSchedMsgs == 3
MaxMsgs == 2

\* audioprocess events handled in one run of the capture specification.
MaxFrames == 3

\* generateVideo calls in one run of the VeoStudio specification, and turns
\* of the polling loop in one call.
MaxGenerations == 2
MaxPolls == 2

\* Server messages and audioprocess events, together, in one run of the
\* lifecycle specifications.
MaxLifeEvents == 1

\* startConversation calls in one run of the visualizer specification
MaxVisStarts == 3

\* the startConversation calls of a run, by the number of the call
Inv == 1..(CHOOSE n \in {MaxStarts, MaxRaceStarts, MaxVisStarts} :
             n >= MaxStarts /\ n >= MaxRaceStarts /\ n >= MaxVisStarts)

\* Durations of inbound audio chunks and the values the output clock is
\* sampled at (tenths of a second).
Durations == {5, 10, 20}
ClockValues == {0, 1, 2, 50}

Max(a, b) == IF a >= b THEN a ELSE b

\* lastSched before any source node was started
NoChunk == [id |-> 0, inv |-> 0, dur |-> 0, when |-> 0, begin |-> 0, end |-> 0,
            epoch |-> 0, arrClock |-> 0, prevCursor |-> 0, clean |-> FALSE,
            cursorAfter |-> 0, prevEnd |-> 0]

VARIABLES
  \* React state (lines 6-8)
  isConnected, isSpeaking, error,
  \* refs (lines 12-22); 0 stands for null, i for the object call i created
  audioContextRef, mediaStreamRef, scriptProcessorRef, sessionRef,
  nextStartTimeRef, sourcesRef, analyserRef, animationFrameRef,
  \* the component is mounted (canvasRef.current is set)
  mounted,
  \* per startConversation call: where the call stands, and the objects it made
  call,        \* "none" | "mic" (awaiting getUserMedia) | "done" | "caught"
  stream,      \* "none" | "live" | "stopped"        the MediaStream's tracks
  outCtx,      \* "none" | "running" | "closed"      audioCtx (24 kHz)
  inCtx,       \* "none" | "running" | "closed"      inputAudioCtx (16 kHz)
  proc,        \* "none" | "created" | "wired" | "disconnected"  scriptProcessor
  chan,        \* "none" | "connecting" | "open" | "errored" | "closed" | "rejected"
  clock,       \* audioCtx.currentTime of the call's output context
  errCount,    \* setError(<message>) calls made by the call's own code
  \* pending requestAnimationFrame callbacks, by the call whose draw loop asked
  rafPending,
  \* output contexts whose close() a suspended stopConversation call awaits
  closing,
  \* a stopConversation call ended in an exception (a rejected promise)
  stopThrew,
  \* onmessage calls suspended at the decode (line 182)
  decodes,
  \* the source nodes started whose 'ended' event has not fired yet
  chunks,
  \* history: the source node started last, with what its message met
  lastSched,
  \* messages delivered so far
  nMsgs,
  \* history: interruptions handled so far
  epoch,
  \* history: the cursor right after the last chunk was scheduled (or the
  \* session began), and whether the cursor was left alone since
  cursorAfterPrev, seqClean,
  \* history: stopConversation calls made in a row (capped at 2)
  stopRun,
  \* history: calls during whose start a stopConversation call ran
  stoppedMidStart,
  \* history: calls whose onopen ran
  opened,
  \* history: the messages whose audio failed to decode
  failed,
  \* history: the release step that failed in a stopConversation call, and
  \* the call whose objects the refs held then
  stopFault,
  \* history: the draw loops a stopConversation call found pending and did
  \* not cancel, and those of them that requested another frame later
  stale, revived,
  \* calls whose connect promise (sessionPromise) is fulfilled
  resolved,
  \* the callbacks line 159 attached to a pending sessionPromise, in the
  \* order they were attached: [id, inv] of the frame each one sends
  queue,
  \* the frames handed to sendRealtimeInput, in the order of the calls
  sent,
  \* audioprocess events handled, and send failures logged (line 163)
  nFrames, sendErrors,
  \* VeoStudio (lines 321-484): React state isGenerating and error
  isGenerating, genError,
  \* where the generateVideo call stands: "idle" (no call) | "key" |
  \* "read" | "submit1" | "reselect" | "submit2" | "poll" | "download"
  genPc,
  \* generateVideos requests submitted by the current call, polls it made,
  \* and generateVideo calls made so far
  submits, polls, runs,
  \* history of the current call: how the first request failed, whether
  \* openSelectKey was there and completed, whether the second request failed
  firstErr, reselected, secondFailed

refVars == <<audioContextRef, mediaStreamRef, scriptProcessorRef, sessionRef,
             sourcesRef, analyserRef, animationFrameRef>>
uiVars == <<isConnected, isSpeaking>>
resVars == <<stream, outCtx, proc, rafPending, chunks, closing, stopThrew>>
\* what stopConversation writes
stopVars == <<refVars, uiVars, resVars>>
playVars == <<nextStartTimeRef, decodes, nMsgs, epoch, cursorAfterPrev, seqClean,
              lastSched>>
envVars == <<error, mounted, call, inCtx, chan, clock, errCount>>
histVars == <<stopRun, stoppedMidStart, opened, failed, stale, revived,
              stopFault>>
capVars == <<resolved, queue, sent, nFrames, sendErrors>>
veoVars == <<isGenerating, genError, genPc, submits, polls, runs, firstErr,
             reselected, secondFailed>>
\* the variables of LiveConversation
liveVars == <<stopVars, playVars, envVars, histVars, capVars>>
vars == <<liveVars, veoVars>>

Init ==
  /\ isConnected = FALSE /\ isSpeaking = FALSE /\ error = "null"
  /\ audioContextRef = 0 /\ mediaStreamRef = 0 /\ scriptProcessorRef = 0
  /\ sessionRef = 0 /\ nextStartTimeRef = 0 /\ sourcesRef = {}
  /\ analyserRef = 0 /\ animationFrameRef = 0
  /\ mounted = TRUE
  /\ call = [i \in Inv |-> "none"]
  /\ stream = [i \in Inv |-> "none"]
  /\ outCtx = [i \in Inv |-> "none"]
  /\ inCtx = [i \in Inv |-> "none"]
  /\ proc = [i \in Inv |-> "none"]
  /\ chan = [i \in Inv |-> "none"]
  /\ clock = [i \in Inv |-> 0]
  /\ errCount = [i \in Inv |-> 0]
  /\ rafPending = {}
  /\ closing = {}
  /\ stopThrew = FALSE
  /\ decodes = {}
  /\ chunks = {}
  /\ lastSched = NoChunk
  /\ nMsgs = 0
  /\ epoch = 0
  /\ cursorAfterPrev = 0 /\ seqClean = TRUE
  /\ stopRun = 0
  /\ stoppedMidStart = {}
  /\ opened = {}
  /\ failed = {}
  /\ stale = {} /\ revived = {}
  /\ stopFault = [step |-> "none", inv |-> 0]
  /\ resolved = {}
  /\ queue = <<>> /\ sent = <<>>
  /\ nFrames = 0 /\ sendErrors = 0
  /\ isGenerating = FALSE /\ genError = "null"
  /\ genPc = "idle"
  /\ submits = 0 /\ polls = 0 /\ runs = 0
  /\ firstErr = "none" /\ reselected = FALSE /\ secondFailed = FALSE

\* ------------------------------------------------------- stopConversation

\* source.stop() on every node of S (lines 95-97 and 209)
StopSources(cs, S) ==
  {IF c.id \in S /\ c.st = "playing" THEN [c EXCEPT !.st = "stopped"] ELSE c :
     c \in cs}

\* line 101: the try/catch around the awaited close()
CloseRejectionCaught_Not == FALSE

CloseRejectionCaught == TRUE

\* Lines 69-107: stopConversation up to its await, or to its end when nothing
\* is awaited for long. close() on a running context starts the close and its
\* promise is settled later: the call is suspended. close() on a context that
\* was closed before returns a rejected promise: the await throws in a
\* microtask of the same task, the catch logs, and lines 102-107 run before
\* any other handler.
StopConversation ==
  /\ rafPending' = IF animationFrameRef # 0
                     THEN rafPending \ {animationFrameRef} ELSE rafPending
  /\ animationFrameRef' = 0
  /\ analyserRef' = 0
  /\ sessionRef' = 0
  /\ stream' = IF mediaStreamRef # 0
                 THEN [stream EXCEPT ![mediaStreamRef] = "stopped"] ELSE stream
  /\ mediaStreamRef' = 0
  /\ proc' = IF scriptProcessorRef # 0
               THEN [proc EXCEPT ![scriptProcessorRef] = "disconnected"] ELSE proc
  /\ scriptProcessorRef' = 0
  /\ chunks' = StopSources(chunks, sourcesRef)
  /\ sourcesRef' = {}
  /\ IF audioContextRef # 0 /\ outCtx[audioContextRef] = "running"
       THEN /\ outCtx' = [outCtx EXCEPT ![audioContextRef] = "closed"]
            /\ closing' = closing \cup {audioContextRef}
            /\ UNCHANGED <<audioContextRef, isConnected, isSpeaking, stopThrew>>
       ELSE IF audioContextRef # 0 /\ ~CloseRejectionCaught
         THEN /\ stopThrew' = TRUE
              /\ UNCHANGED <<audioContextRef, isConnected, isSpeaking, outCtx,
                             closing>>
         ELSE /\ audioContextRef' = 0
              /\ isConnected' = FALSE
              /\ isSpeaking' = FALSE
              /\ UNCHANGED <<outCtx, closing, stopThrew>>

\* The release steps of stopConversation that call into the platform: lines
\* 84, 90, 96 and 101.
ReleaseSteps == {"track", "disconnect", "source", "close"}

\* Lines 69-107 when the release step `step` throws (or, for close, its
\* promise is rejected). Lines 84 and 90 are in no try block: the exception
\* ends the call and the lines after are not run. Lines 96 and 101 are in a
\* try block each: the call goes on. s: the source whose stop() throws.
StopFailing(step, s) ==
  /\ rafPending' = IF animationFrameRef # 0
                     THEN rafPending \ {animationFrameRef} ELSE rafPending
  /\ animationFrameRef' = 0
  /\ analyserRef' = 0
  /\ sessionRef' = 0
  /\ CASE step = "track" ->
            /\ mediaStreamRef # 0
            /\ stopThrew' = TRUE
            /\ UNCHANGED <<stream, mediaStreamRef, proc, scriptProcessorRef,
                           chunks, sourcesRef, outCtx, closing,
                           audioContextRef, isConnected, isSpeaking>>
       [] step = "disconnect" ->
            /\ scriptProcessorRef # 0
            /\ stream' = IF mediaStreamRef # 0
                           THEN [stream EXCEPT ![mediaStreamRef] = "stopped"]
                           ELSE stream
            /\ mediaStreamRef' = 0
            /\ stopThrew' = TRUE
            /\ UNCHANGED <<proc, scriptProcessorRef, chunks, sourcesRef,
                           outCtx, closing, audioContextRef, isConnected,
                           isSpeaking>>
       [] step \in {"source", "close"} ->
            /\ step = "source" => s \in sourcesRef
            /\ step = "close" => audioContextRef # 0
            /\ stream' = IF mediaStreamRef # 0
                           THEN [stream EXCEPT ![mediaStreamRef] = "stopped"]
                           ELSE stream
            /\ mediaStreamRef' = 0
            /\ proc' = IF scriptProcessorRef # 0
                         THEN [proc EXCEPT ![scriptProcessorRef] =
                                 "disconnected"]
                         ELSE proc
            /\ scriptProcessorRef' = 0
            /\ chunks' = StopSources(chunks, IF step = "source"
                                               THEN sourcesRef \ {s}
                                               ELSE sourcesRef)
            /\ sourcesRef' = {}
            /\ IF step = "source" /\ audioContextRef # 0
                  /\ outCtx[audioContextRef] = "running"
                 THEN /\ outCtx' = [outCtx EXCEPT ![audioContextRef] =
                                      "closed"]
                      /\ closing' = closing \cup {audioContextRef}
                      /\ UNCHANGED <<audioContextRef, isConnected,
                                     isSpeaking, stopThrew>>
                 ELSE /\ audioContextRef' = 0
                      /\ isConnected' = FALSE
                      /\ isSpeaking' = FALSE
                      /\ UNCHANGED <<outCtx, closing, stopThrew>>

\* calls whose start a stopConversation call made now cuts into
MidStart == {i \in Inv : call[i] = "mic" \/ chan[i] = "connecting"}

StopHistory ==
  /\ stopRun' = IF stopRun < 2 THEN stopRun + 1 ELSE 2
  /\ stoppedMidStart' = stoppedMidStart \cup MidStart
  /\ stale' = stale \cup (rafPending \ {animationFrameRef})
  /\ UNCHANGED <<opened, failed, revived, stopFault>>

NoStopHistory ==
  /\ stopRun' = 0
  /\ UNCHANGED <<stoppedMidStart, opened, failed, stale, revived, stopFault>>

\* The stop button (line 273) when a release step of the call fails.
FaultyStop(step, s) ==
  /\ mounted /\ isConnected
  /\ stopFault.step = "none"
  /\ StopFailing(step, s)
  /\ stopFault' = [step |-> step, inv |-> audioContextRef]
  /\ stopRun' = IF stopRun < 2 THEN stopRun + 1 ELSE 2
  /\ stoppedMidStart' = stoppedMidStart \cup MidStart
  /\ stale' = stale \cup (rafPending \ {animationFrameRef})
  /\ UNCHANGED <<opened, failed, revived>>
  /\ UNCHANGED <<playVars, envVars, capVars>>
  /\ UNCHANGED veoVars

\* Lines 101-107: close() of context i is done and the stopConversation call
\* that awaited it resumes.
StopResume(i) ==
  /\ i \in closing
  /\ closing' = closing \ {i}
  /\ audioContextRef' = 0
  /\ isConnected' = FALSE
  /\ isSpeaking' = FALSE
  /\ UNCHANGED <<mediaStreamRef, scriptProcessorRef, sessionRef, sourcesRef,
                 analyserRef, animationFrameRef, stream, outCtx, proc,
                 rafPending, chunks, stopThrew, playVars, envVars, histVars>>
  /\ UNCHANGED <<capVars, veoVars>>

\* The stop button (line 273), shown while isConnected.
UserStop ==
  /\ mounted /\ isConnected
  /\ StopConversation /\ StopHistory
  /\ UNCHANGED <<playVars, envVars>>
  /\ UNCHANGED <<capVars, veoVars>>

\* Lines 235-240: the effect cleanup on unmount.
Unmount ==
  /\ mounted
  /\ mounted' = FALSE
  /\ StopConversation /\ StopHistory
  /\ UNCHANGED <<playVars, error, call, inCtx, chan, clock, errCount>>
  /\ UNCHANGED <<capVars, veoVars>>

\* ------------------------------------------------------ startConversation

\* Lines 110-114: the start button (line 264), shown while not isConnected;
\* the call runs to `await getUserMedia`.
StartConversation(i) ==
  /\ mounted /\ ~isConnected
  /\ call[i] = "none" /\ \A j \in Inv : j < i => call[j] # "none"
  /\ error' = "null"
  /\ call' = [call EXCEPT ![i] = "mic"]
  /\ NoStopHistory
  /\ UNCHANGED <<stopVars, playVars, mounted, inCtx, chan, clock, errCount>>
  /\ UNCHANGED <<capVars, veoVars>>

\* Lines 28-67: drawVisualizer() as called at line 136, with analyserRef set.
DrawVisualizer(i) ==
  IF mounted
    THEN animationFrameRef' = i /\ rafPending' = rafPending \cup {i}
    ELSE UNCHANGED <<animationFrameRef, rafPending>>

\* Lines 115-141 and 232: getUserMedia resolved; the call sets the session up,
\* issues the connect request without awaiting it, and returns.
MicGranted(i) ==
  /\ call[i] = "mic"
  /\ call' = [call EXCEPT ![i] = "done"]
  /\ stream' = [stream EXCEPT ![i] = "live"]
  /\ mediaStreamRef' = i
  /\ outCtx' = [outCtx EXCEPT ![i] = "running"]
  /\ audioContextRef' = i
  /\ nextStartTimeRef' = clock[i]
  /\ inCtx' = [inCtx EXCEPT ![i] = "running"]
  /\ proc' = [proc EXCEPT ![i] = "created"]
  /\ scriptProcessorRef' = i
  /\ analyserRef' = i
  /\ DrawVisualizer(i)
  /\ chan' = [chan EXCEPT ![i] = "connecting"]
  /\ cursorAfterPrev' = clock[i] /\ seqClean' = TRUE
  /\ decodes' = {[d EXCEPT !.clean = FALSE] : d \in decodes}
  /\ NoStopHistory
  /\ UNCHANGED <<sessionRef, sourcesRef, uiVars, chunks, closing, stopThrew,
                 nMsgs, epoch, lastSched, error, mounted, clock, errCount>>
  /\ UNCHANGED <<capVars, veoVars>>

\* line 229: setError(err.message || "Failed to start conversation")
CatchReport_Silent(i) == UNCHANGED <<error, errCount>>

CatchReport(i) ==
  /\ error' = "Permission denied"
  /\ errCount' = [errCount EXCEPT ![i] = @ + 1]

\* Lines 227-231: getUserMedia rejected; the catch block reports the error
\* and calls stopConversation.
MicDenied(i) ==
  /\ call[i] = "mic"
  /\ call' = [call EXCEPT ![i] = "caught"]
  /\ CatchReport(i)
  /\ StopConversation /\ StopHistory
  /\ UNCHANGED <<playVars, mounted, inCtx, chan, clock>>
  /\ UNCHANGED <<capVars, veoVars>>

\* Lines 39-41: a pending requestAnimationFrame callback of the draw loop of
\* call i runs. The loop ends when analyserRef.current is null; otherwise it
\* requests the next frame, stores the handle and samples its analyser.
Draw(i) ==
  /\ i \in rafPending
  /\ IF analyserRef = 0
       THEN /\ rafPending' = rafPending \ {i}
            /\ stale' = stale \ {i}
            /\ UNCHANGED <<animationFrameRef, revived>>
       ELSE /\ animationFrameRef' = i
            /\ revived' = revived \cup ({i} \cap stale)
            /\ UNCHANGED <<rafPending, stale>>
  /\ stopRun' = 0
  /\ UNCHANGED <<audioContextRef, mediaStreamRef, scriptProcessorRef,
                 sessionRef, sourcesRef, analyserRef, uiVars, stream, outCtx,
                 proc, chunks, closing, stopThrew, playVars, envVars,
                 stoppedMidStart, opened, failed, stopFault, capVars>>
  /\ UNCHANGED veoVars

\* ------------------------------------------------- remote channel callbacks

\* Lines 151-169: onopen. The connect promise is fulfilled right after it.
OnOpen(i) ==
  /\ chan[i] = "connecting"
  /\ chan' = [chan EXCEPT ![i] = "open"]
  /\ isConnected' = TRUE
  /\ proc' = [proc EXCEPT ![i] = "wired"]
  /\ opened' = opened \cup {i}
  /\ stopRun' = 0
  /\ UNCHANGED <<stoppedMidStart, failed, stale, revived, stopFault>>
  /\ UNCHANGED <<refVars, isSpeaking, stream, outCtx, rafPending, chunks,
                 closing, stopThrew, playVars, error, mounted, call, inCtx,
                 clock, errCount>>
  /\ UNCHANGED <<capVars, veoVars>>

\* Line 141: the promise ai.live.connect returned is rejected. The call did
\* not await it and attached no handler to it: no code of the component runs.
ConnectReject(i) ==
  /\ chan[i] = "connecting"
  /\ chan' = [chan EXCEPT ![i] = "rejected"]
  /\ NoStopHistory
  /\ UNCHANGED <<stopVars, playVars, error, mounted, call, inCtx, clock,
                 errCount>>
  /\ UNCHANGED <<capVars, veoVars>>

\* Lines 219-223 without line 222
OnError_NoTeardown(i) ==
  /\ chan[i] \in {"connecting", "open"}
  /\ chan' = [chan EXCEPT ![i] = "errored"]
  /\ error' = "Connection error"
  /\ errCount' = [errCount EXCEPT ![i] = @ + 1]
  /\ NoStopHistory
  /\ UNCHANGED <<stopVars, playVars, mounted, call, inCtx, clock>>
  /\ UNCHANGED <<capVars, veoVars>>

\* Lines 219-223: onerror. The channel reports an error while connecting or
\* open; its close event may follow.
OnError(i) ==
  /\ chan[i] \in {"connecting", "open"}
  /\ chan' = [chan EXCEPT ![i] = "errored"]
  /\ error' = "Connection error"
  /\ errCount' = [errCount EXCEPT ![i] = @ + 1]
  /\ StopConversation /\ StopHistory
  /\ UNCHANGED <<playVars, mounted, call, inCtx, clock>>
  /\ UNCHANGED <<capVars, veoVars>>

\* Lines 215-218 without line 217
OnClose_NoTeardown(i) ==
  /\ chan[i] \in {"open", "errored"}
  /\ chan' = [chan EXCEPT ![i] = "closed"]
  /\ NoStopHistory
  /\ UNCHANGED <<stopVars, playVars, error, mounted, call, inCtx, clock,
                 errCount>>
  /\ UNCHANGED <<capVars, veoVars>>

\* Lines 215-218: onclose. The server closed the channel, or the channel
\* closes after its error.
OnClose(i) ==
  /\ chan[i] \in {"open", "errored"}
  /\ chan' = [chan EXCEPT ![i] = "closed"]
  /\ StopConversation /\ StopHistory
  /\ UNCHANGED <<playVars, error, mounted, call, inCtx, clock, errCount>>
  /\ UNCHANGED <<capVars, veoVars>>

\* The frames of queue that call i captured, and the others
QueueOf(i) == SelectSeq(queue, LAMBDA f : f.inv = i)
QueueNotOf(i) == SelectSeq(queue, LAMBDA f : f.inv # i)

\* line 163: a failed send is logged
SendFailed_Silent(n) == n

SendFailed(n) == n + 1

\* Lines 156-165: onaudioprocess, for the frame nFrames + 1. The callback of
\* line 159 runs as a microtask of the event when sessionPromise is already
\* fulfilled, and is kept by the promise otherwise. ok: sendRealtimeInput
\* returns (else it throws, and line 163 logs); it is only called, and ok
\* only matters, when the callback runs. max bounds the frames.
CaptureFrame(i, ok, max) ==
  /\ proc[i] = "wired" /\ inCtx[i] = "running"
  /\ nFrames < max
  /\ nFrames' = nFrames + 1
  /\ IF i \in resolved
       THEN /\ sessionRef' = i
            /\ sent' = Append(sent, [id |-> nFrames + 1, inv |-> i,
                                     queued |-> FALSE, ok |-> ok])
            /\ sendErrors' = IF ok THEN sendErrors ELSE SendFailed(sendErrors)
            /\ UNCHANGED queue
       ELSE /\ ok
            /\ queue' = Append(queue, [id |-> nFrames + 1, inv |-> i,
                                       queued |-> TRUE, ok |-> TRUE])
            /\ UNCHANGED <<sessionRef, sent, sendErrors>>
  /\ NoStopHistory
  /\ UNCHANGED <<audioContextRef, mediaStreamRef, scriptProcessorRef,
                 sourcesRef, analyserRef, animationFrameRef, uiVars, resVars,
                 playVars, envVars, resolved>>
  /\ UNCHANGED veoVars

\* The callbacks a promise holds run in the order they were attached
Flush_Reversed(q) == [k \in 1..Len(q) |-> q[Len(q) + 1 - k]]

Flush(q) == q

RECURSIVE LogFailures(_, _)
\* line 163 for every frame of q whose send threw, starting from n
LogFailures(q, n) ==
  IF q = <<>> THEN n
  ELSE LogFailures(Tail(q), IF Head(q).ok THEN n ELSE SendFailed(n))

\* Lines 141 and 159-164: sessionPromise is fulfilled, after onopen, and the
\* callbacks attached to it run. F: the frames whose send throws.
ConnectResolve(i, F) ==
  /\ i \in opened /\ i \notin resolved
  /\ F \subseteq {QueueOf(i)[k].id : k \in 1..Len(QueueOf(i))}
  /\ resolved' = resolved \cup {i}
  /\ LET q == [k \in 1..Len(QueueOf(i)) |->
                 [QueueOf(i)[k] EXCEPT !.ok = QueueOf(i)[k].id \notin F]]
     IN  /\ sent' = sent \o Flush(q)
         /\ sendErrors' = LogFailures(q, sendErrors)
  /\ queue' = QueueNotOf(i)
  /\ sessionRef' = IF QueueOf(i) # <<>> THEN i ELSE sessionRef
  /\ NoStopHistory
  /\ UNCHANGED <<audioContextRef, mediaStreamRef, scriptProcessorRef,
                 sourcesRef, analyserRef, animationFrameRef, uiVars, resVars,
                 playVars, envVars, nFrames>>
  /\ UNCHANGED veoVars

\* ---------------------------------------------------------------- playback

\* Lines 177-180: the cursor is synced to the output clock on arrival
SyncTime_Keep(cursor, now) == cursor

SyncTime_Now(cursor, now) == now

SyncTime(cursor, now) == Max(cursor, now)

\* line 210: sourcesRef.current.clear()
ClearSources_Keep(S) == S

ClearSources(S) == {}

Unclean(ds) == {[d EXCEPT !.clean = FALSE] : d \in ds}

\* Lines 206-213 on the playback state (cs, S): every outstanding source is
\* stopped, the set is cleared, the cursor is reset to the output clock.
Interrupted(i, cs, S) ==
  /\ chunks' = StopSources(cs, S)
  /\ sourcesRef' = ClearSources(S)
  /\ nextStartTimeRef' = clock[i]
  /\ isSpeaking' = FALSE
  /\ epoch' = epoch + 1
  /\ seqClean' = FALSE

\* The payloads of a server message: dur is the duration of its audio chunk
\* (0: no audio part), intr its interruption flag.
MsgKinds ==
  {[dur |-> d, intr |-> FALSE] : d \in Durations}
    \cup {[dur |-> 0, intr |-> TRUE], [dur |-> 5, intr |-> TRUE]}

\* messages with an audio part or an interruption flag, not both
SchedKinds == {m \in MsgKinds : m.dur = 0 \/ ~m.intr}

\* Lines 170-187, and 206-213 for a message without audio: onmessage runs to
\* its await of decodeAudioData, or to its end. max bounds the messages.
\* arrEpoch is history: the interruptions handled before the message came.
OnMessage(i, m, max) ==
  /\ chan[i] = "open" /\ nMsgs < max
  /\ nMsgs' = nMsgs + 1
  /\ IF m.dur # 0
       THEN /\ isSpeaking' = TRUE
            /\ nextStartTimeRef' = SyncTime(nextStartTimeRef, clock[i])
            /\ decodes' = Unclean(decodes) \cup
                 {[id |-> nMsgs + 1, inv |-> i, dur |-> m.dur, intr |-> m.intr,
                   arrClock |-> clock[i], prevCursor |-> cursorAfterPrev,
                   arrEpoch |-> epoch, clean |-> seqClean /\ decodes = {}]}
            /\ UNCHANGED <<chunks, sourcesRef, epoch, seqClean>>
       ELSE /\ Interrupted(i, chunks, sourcesRef)
            /\ decodes' = Unclean(decodes)
  /\ NoStopHistory
  /\ UNCHANGED <<audioContextRef, mediaStreamRef, scriptProcessorRef,
                 sessionRef, analyserRef, animationFrameRef, isConnected,
                 stream, outCtx, proc, rafPending, closing, stopThrew,
                 cursorAfterPrev, lastSched, envVars>>
  /\ UNCHANGED <<capVars, veoVars>>

\* line 202: the cursor moves to the end of the chunk as scheduled
Advance_FromClock(when, begin, dur) == begin + dur

Advance(when, begin, dur) == when + dur

\* The source node lines 189-203 build for decode d: start(when) begins at
\* once when `when` is already past, and plays for the buffer's duration.
\* prevEnd is history: where the node started before it ends, when that node
\* is of the same session and no interruption came in between (else 0).
NewChunk(d, when, now) ==
  [id |-> d.id, inv |-> d.inv, dur |-> d.dur, when |-> when,
   begin |-> Max(when, now), end |-> Max(when, now) + d.dur,
   epoch |-> epoch,
   arrClock |-> d.arrClock, prevCursor |-> d.prevCursor, clean |-> d.clean,
   cursorAfter |-> Advance(when, Max(when, now), d.dur),
   prevEnd |-> IF lastSched.inv = d.inv /\ lastSched.epoch = epoch
                 THEN lastSched.end ELSE 0]

\* the node as sourcesRef and the output context hold it
Node(c) == [id |-> c.id, inv |-> c.inv, dur |-> c.dur, when |-> c.when,
            begin |-> c.begin, end |-> c.end, epoch |-> c.epoch,
            arrClock |-> c.arrClock, clean |-> c.clean, st |-> "playing"]

\* Lines 189-213: the decode of d is done; onmessage resumes, schedules the
\* chunk and then handles the interruption flag of the same message.
DecodeDone(d) ==
  /\ d \in decodes
  /\ LET c == NewChunk(d, nextStartTimeRef, clock[d.inv])
         cs == chunks \cup {Node(c)}
         S == sourcesRef \cup {c.id}
     IN  /\ lastSched' = c
         /\ cursorAfterPrev' = c.cursorAfter
         /\ decodes' = Unclean(decodes \ {d})
         /\ IF d.intr
              THEN Interrupted(d.inv, cs, S)
              ELSE /\ chunks' = cs
                   /\ sourcesRef' = S
                   /\ nextStartTimeRef' = c.cursorAfter
                   /\ seqClean' = TRUE
                   /\ UNCHANGED <<isSpeaking, epoch>>
  /\ NoStopHistory
  /\ UNCHANGED <<audioContextRef, mediaStreamRef, scriptProcessorRef,
                 sessionRef, analyserRef, animationFrameRef, isConnected,
                 stream, outCtx, proc, rafPending, closing, stopThrew, nMsgs,
                 envVars>>
  /\ UNCHANGED <<capVars, veoVars>>

\* Line 182: the decode of d throws; the promise of the onmessage call is
\* rejected and the rest of the handler does not run.
DecodeFail(d) ==
  /\ d \in decodes
  /\ decodes' = decodes \ {d}
  /\ failed' = failed \cup {[id |-> d.id, inv |-> d.inv, intr |-> d.intr,
                               epoch |-> epoch]}
  /\ stopRun' = 0
  /\ UNCHANGED <<stoppedMidStart, opened, stale, revived, stopFault>>
  /\ UNCHANGED <<stopVars, nextStartTimeRef, nMsgs, epoch, cursorAfterPrev,
                 seqClean, lastSched, envVars>>
  /\ UNCHANGED <<capVars, veoVars>>

\* Lines 196-199 without line 197
Ended_NoDelete(c) ==
  /\ c \in chunks
  /\ outCtx[c.inv] = "running"
  /\ c.st = "stopped" \/ (c.st = "playing" /\ clock[c.inv] >= c.end)
  /\ chunks' = chunks \ {c}
  /\ isSpeaking' = IF sourcesRef = {} THEN FALSE ELSE isSpeaking
  /\ NoStopHistory
  /\ UNCHANGED <<refVars, isConnected, stream, outCtx, proc, rafPending,
                 closing, stopThrew, playVars, envVars>>
  /\ UNCHANGED <<capVars, veoVars>>

\* Lines 196-199: the 'ended' event of source node c, fired when the node has
\* played to its end or was stopped, while its context runs.
Ended(c) ==
  /\ c \in chunks
  /\ outCtx[c.inv] = "running"
  /\ c.st = "stopped" \/ (c.st = "playing" /\ clock[c.inv] >= c.end)
  /\ chunks' = chunks \ {c}
  /\ sourcesRef' = sourcesRef \ {c.id}
  /\ isSpeaking' = IF sourcesRef' = {} THEN FALSE ELSE isSpeaking
  /\ NoStopHistory
  /\ UNCHANGED <<audioContextRef, mediaStreamRef, scriptProcessorRef,
                 sessionRef, analyserRef, animationFrameRef, isConnected,
                 stream, outCtx, proc, rafPending, closing, stopThrew,
                 playVars, envVars>>
  /\ UNCHANGED <<capVars, veoVars>>

\* audioCtx.currentTime of a running output context advances.
Tick(i) ==
  /\ outCtx[i] = "running"
  /\ \E t \in ClockValues : t > clock[i] /\ clock' = [clock EXCEPT ![i] = t]
  /\ UNCHANGED <<stopVars, playVars, error, mounted, call, inCtx, chan,
                 errCount, histVars>>
  /\ UNCHANGED <<capVars, veoVars>>

\* -------------------------------------------------- VeoStudio.generateVideo

\* Lines 478-484: the outer catch and the finally of generateVideo
GenFail(msg) ==
  /\ genError' = msg
  /\ isGenerating' = FALSE
  /\ genPc' = "idle"

\* Lines 362-374: the Generate button (disabled while isGenerating or with no
\* file, line 564); the call runs to its await of checkApiKey.
GenerateVideo ==
  /\ genPc = "idle" /\ ~isGenerating /\ runs < MaxGenerations
  /\ runs' = runs + 1
  /\ isGenerating' = TRUE
  /\ genError' = "null"
  /\ genPc' = "key"
  /\ submits' = 0 /\ polls' = 0
  /\ firstErr' = "none" /\ reselected' = FALSE /\ secondFailed' = FALSE
  /\ UNCHANGED liveVars

\* Lines 374-381: checkApiKey is done; without a key the call throws.
KeyChecked(hasKey) ==
  /\ genPc = "key"
  /\ IF hasKey
       THEN genPc' = "read" /\ UNCHANGED <<genError, isGenerating>>
       ELSE GenFail("API Key selection is required")
  /\ UNCHANGED <<submits, polls, runs, firstErr, reselected, secondFailed,
                 liveVars>>

\* Lines 381-412: the file is read (or the reader fails); on success the
\* first generateVideos request is submitted and awaited.
FileRead(ok) ==
  /\ genPc = "read"
  /\ IF ok
       THEN /\ genPc' = "submit1"
            /\ submits' = submits + 1
            /\ UNCHANGED <<genError, isGenerating>>
       ELSE GenFail("read error") /\ UNCHANGED submits
  /\ UNCHANGED <<polls, runs, firstErr, reselected, secondFailed, liveVars>>

\* what the messages of a failed request can say (line 415)
SubmitErrors == {"notfound", "403", "other"}

\* line 415: the failures that lead to a new key selection
Retryable(e) == e \in {"notfound", "403"}

\* Lines 399-438: the first request is answered. out: "ok" or how it failed;
\* avail: window.aistudio?.openSelectKey is there.
FirstAnswered(out, avail) ==
  /\ genPc = "submit1"
  /\ IF out = "ok"
       THEN /\ genPc' = "poll"
            /\ UNCHANGED <<genError, isGenerating, firstErr>>
       ELSE /\ firstErr' = out
            /\ IF Retryable(out) /\ avail
                 THEN genPc' = "reselect" /\ UNCHANGED <<genError, isGenerating>>
                 ELSE GenFail(out)
  /\ UNCHANGED <<submits, polls, runs, reselected, secondFailed, liveVars>>

\* Lines 418-432: openSelectKey is done (or rejects); on success the request
\* is submitted a second time and awaited.
Reselected(ok) ==
  /\ genPc = "reselect"
  /\ IF ok
       THEN /\ reselected' = TRUE
            /\ submits' = submits + 1
            /\ genPc' = "submit2"
            /\ UNCHANGED <<genError, isGenerating>>
       ELSE GenFail("key selection failed") /\ UNCHANGED <<reselected, submits>>
  /\ UNCHANGED <<polls, runs, firstErr, secondFailed, liveVars>>

\* Lines 420-432 and 478-484: the second request is in no try block of its
\* own; its failure goes to the outer catch.
OnSecondFailure_Retry(out) ==
  /\ genPc' = "reselect"
  /\ UNCHANGED <<genError, isGenerating>>

OnSecondFailure(out) == GenFail(out)

\* Lines 420-440: the second request is answered.
SecondAnswered(out) ==
  /\ genPc = "submit2"
  /\ IF out = "ok"
       THEN /\ genPc' = "poll"
            /\ UNCHANGED <<genError, isGenerating, secondFailed>>
       ELSE /\ secondFailed' = TRUE
            /\ OnSecondFailure(out)
  /\ UNCHANGED <<submits, polls, runs, firstErr, reselected, liveVars>>

\* Lines 442-457: one turn of the polling loop, or its end. res: the
\* operation is "pending", "done", done with an "error" or without a URI
\* ("nouri"), or getVideosOperation "throws".
Poll(res) ==
  /\ genPc = "poll"
  /\ CASE res = "pending" ->
            /\ polls < MaxPolls
            /\ polls' = polls + 1
            /\ UNCHANGED <<genPc, genError, isGenerating>>
       [] res = "done" ->
            /\ genPc' = "download"
            /\ UNCHANGED <<polls, genError, isGenerating>>
       [] OTHER -> GenFail(res) /\ UNCHANGED polls
  /\ UNCHANGED <<submits, runs, firstErr, reselected, secondFailed, liveVars>>

\* Lines 459-476: the video is fetched.
Downloaded(ok) ==
  /\ genPc = "download"
  /\ IF ok
       THEN /\ genPc' = "idle"
            /\ isGenerating' = FALSE
            /\ UNCHANGED genError
       ELSE GenFail("download failed")
  /\ UNCHANGED <<submits, polls, runs, firstErr, reselected, secondFailed,
                 liveVars>>

\* ---------------------------------------------------------- specifications

\* The audio message of the lifecycle specifications
LifeMsg == [dur |-> 10, intr |-> FALSE]

\* The steps of the session lifecycle, for the calls 1..n.
Lifecycle(n) ==
  \/ \E i \in 1..n : StartConversation(i)
  \/ \E i \in 1..n : MicGranted(i)
  \/ \E i \in 1..n : MicDenied(i)
  \/ \E i \in 1..n : OnOpen(i)
  \/ \E i \in 1..n : ConnectReject(i)
  \/ \E i \in 1..n : OnError(i)
  \/ \E i \in 1..n : OnClose(i)
  \/ \E i \in 1..n : CaptureFrame(i, TRUE, MaxLifeEvents - nMsgs)
  \/ \E i \in 1..n : ConnectResolve(i, {})
  \/ \E i \in 1..n : OnMessage(i, LifeMsg, MaxLifeEvents - nFrames)
  \/ \E d \in decodes : DecodeDone(d)
  \/ \E i \in 1..n : StopResume(i)
  \/ UserStop
  \/ Unmount

\* The session lifecycle: every start, stop and channel callback, with the
\* audio messages that put chunks into sourcesRef.
Next == Lifecycle(MaxStarts)

Spec == Init /\ [][Next]_vars

\* The same with startConversation calls that overlap.
NextRace == Lifecycle(MaxRaceStarts)

SpecRace == Init /\ [][NextRace]_vars

\* One session and its playback timeline: the messages of the channel, the
\* decodes, the output clock and the 'ended' events.
NextPlayback ==
  \/ StartConversation(1)
  \/ MicGranted(1)
  \/ OnOpen(1)
  \/ \E m \in MsgKinds : OnMessage(1, m, MaxMsgs)
  \/ \E d \in decodes : DecodeDone(d)
  \/ \E d \in decodes : DecodeFail(d)
  \/ \E c \in chunks : Ended(c)
  \/ Tick(1)

SpecPlayback == Init /\ [][NextPlayback]_vars

\* One session and the scheduling of its chunks: audio messages and
\* interruption messages, the decodes and the output clock.
NextSchedule ==
  \/ StartConversation(1)
  \/ MicGranted(1)
  \/ OnOpen(1)
  \/ \E m \in SchedKinds : OnMessage(1, m, MaxSchedMsgs)
  \/ \E d \in decodes : DecodeDone(d)
  \/ Tick(1)

SpecSchedule == Init /\ [][NextSchedule]_vars

\* One session and its capture pipeline: the audioprocess events, the
\* fulfilment of sessionPromise, sends that fail, and the stop button.
NextCapture ==
  \/ StartConversation(1)
  \/ MicGranted(1)
  \/ OnOpen(1)
  \/ \E F \in SUBSET (1..MaxFrames) : ConnectResolve(1, F)
  \/ \E ok \in BOOLEAN : CaptureFrame(1, ok, MaxFrames)
  \/ UserStop
  \/ StopResume(1)

SpecCapture == Init /\ [][NextCapture]_vars

\* The visualizer loops over starts, stops and restarts: the starts (which
\* may overlap), the channel opening or failing, the stop button and the
\* animation frames.
NextVisual ==
  \/ \E i \in 1..MaxVisStarts : StartConversation(i)
  \/ \E i \in 1..MaxVisStarts : MicGranted(i)
  \/ \E i \in 1..MaxVisStarts : OnOpen(i)
  \/ \E i \in 1..MaxVisStarts : OnError(i)
  \/ \E i \in 1..MaxVisStarts : StopResume(i)
  \/ \E i \in 1..MaxVisStarts : Draw(i)
  \/ UserStop

SpecVisual == Init /\ [][NextVisual]_vars

\* One session and its teardown by the stop button, with release steps that
\* fail: the session plays chunks, so that every release step has work.
NextTeardown ==
  \/ StartConversation(1)
  \/ MicGranted(1)
  \/ OnOpen(1)
  \/ OnMessage(1, LifeMsg, MaxMsgs)
  \/ \E d \in decodes : DecodeDone(d)
  \/ UserStop
  \/ \E step \in ReleaseSteps : \E s \in sourcesRef \cup {0} :
       FaultyStop(step, s)
  \/ \E i \in Inv : StopResume(i)

SpecTeardown == Init /\ [][NextTeardown]_vars

\* The generateVideo calls of VeoStudio.
NextVeo ==
  \/ GenerateVideo
  \/ \E hasKey \in BOOLEAN : KeyChecked(hasKey)
  \/ \E ok \in BOOLEAN : FileRead(ok)
  \/ \E out \in SubmitErrors \cup {"ok"} : \E avail \in BOOLEAN :
       FirstAnswered(out, avail)
  \/ \E ok \in BOOLEAN : Reselected(ok)
  \/ \E out \in SubmitErrors \cup {"ok"} : SecondAnswered(out)
  \/ \E res \in {"pending", "done", "error", "nouri", "throws"} : Poll(res)
  \/ \E ok \in BOOLEAN : Downloaded(ok)

SpecVeo == Init /\ [][NextVeo]_vars


\* ------------------------------------------------------ playback properties

\* the node of chunk k, when the output context still holds it
ChunkOf(k) == {c \in chunks : c.id = k}

\* The run of the example: chunks of 1.0 s, 0.5 s and 2.0 s that arrive at
\* the clock values 0.1 s, 0.2 s and 5.0 s (in tenths of a second), each
\* handled to its end before the next arrives.
ExampleRun ==
  /\ \E c \in ChunkOf(1) : c.dur = 10 /\ c.arrClock = 1 /\ c.clean
  /\ \E c \in ChunkOf(2) : c.dur = 5 /\ c.arrClock = 2 /\ c.clean
  /\ \E c \in ChunkOf(3) : c.dur = 20 /\ c.arrClock = 50 /\ c.clean

ExampleTimes ==
  /\ \A c \in ChunkOf(1) : c.when = 1
  /\ \A c \in ChunkOf(2) : c.when = 11
  /\ \A c \in ChunkOf(3) : c.when = 50

\* C1: a chunk that is handled in arrival order (nothing else of the session
\* is handled between its arrival and its scheduling, and its predecessor
\* was scheduled before it arrived) is started at the larger of the output
\* clock at its arrival and the cursor its predecessor left, and leaves the
\* cursor at its start time plus its duration; chunks of 1.0 s, 0.5 s and
\* 2.0 s arriving at 0.1 s, 0.2 s and 5.0 s are started at 0.1, 1.1 and 5.0.
C1_StartAtMaxOfClockAndCursor ==
  /\ (lastSched.id # 0 /\ lastSched.clean) =>
       /\ lastSched.when = Max(lastSched.arrClock, lastSched.prevCursor)
       /\ lastSched.cursorAfter = lastSched.when + lastSched.dur
  /\ (lastSched.id # 0 /\ lastSched.clean /\ decodes = {} /\ seqClean) =>
       nextStartTimeRef = lastSched.when + lastSched.dur
  /\ ExampleRun => ExampleTimes

\* C1 witness: the example run has been scheduled, with the times 0.1, 1.1
\* and 5.0.
C1_ExampleScheduled == ExampleRun /\ ExampleTimes /\ lastSched.id = 3

\* C2: no chunk begins to play before the chunk scheduled before it (in the
\* same session, with no interruption in between) has played to its end.
C2_NoOverlap ==
  lastSched.id # 0 => lastSched.begin >= lastSched.prevEnd

\* C3: when a message with the interruption flag is handled, every source of
\* sourcesRef is stopped, sourcesRef is emptied, the cursor is set to the
\* output clock and isSpeaking is cleared; and no chunk scheduled before an
\* interruption plays after it.
C3_InterruptionFlushes ==
  /\ [](\A c \in chunks : c.epoch < epoch => c.st # "playing")
  /\ [][epoch' # epoch =>
          /\ sourcesRef' = {}
          /\ \A c \in chunks : c.id \in sourcesRef =>
               \E c2 \in chunks' : c2.id = c.id /\ c2.st = "stopped"
          /\ \A c \in chunks' : c.st # "playing"
          /\ \E i \in Inv : chan[i] = "open" /\ nextStartTimeRef' = clock'[i]
          /\ isSpeaking' = FALSE]_vars

\* C3 witness: an interruption has stopped a chunk that was playing and not
\* yet at its end, and left sourcesRef empty and the cursor at the clock.
C3_Interrupted ==
  /\ epoch > 0 /\ sourcesRef = {} /\ ~isSpeaking
  /\ nextStartTimeRef = clock[1]
  /\ \E c \in chunks : c.st = "stopped" /\ c.end > clock[1]

\* ----------------------------------------------------- lifecycle properties

\* every ref of the component is null or empty and both flags are cleared
Released ==
  /\ audioContextRef = 0 /\ mediaStreamRef = 0 /\ scriptProcessorRef = 0
  /\ sessionRef = 0 /\ analyserRef = 0 /\ animationFrameRef = 0
  /\ sourcesRef = {}
  /\ ~isConnected /\ ~isSpeaking

\* stopConversation was called once or more since the session last changed,
\* and every one of the calls has returned
Stopped == stopRun >= 1 /\ closing = {}

\* C4: after stopConversation has run, once or several times in a row or
\* with nothing to stop, every ref is null, sourcesRef is empty, both flags
\* are false and no call has thrown.
C4_StopIdempotent == Stopped => (Released /\ ~stopThrew)

\* C4 witness: stopConversation ran twice in a row on a session that held an
\* output context, and both calls have returned.
C4_StoppedTwice ==
  /\ stopRun = 2 /\ closing = {}
  /\ \E i \in Inv : outCtx[i] = "closed"

\* C5: when stopConversation has returned after a session was connected,
\* the remote channel is closed, the microphone tracks are stopped, the
\* capture processing is disconnected, both audio contexts are closed, no
\* source plays and no visualizer frame is pending.
C5_AllReleased ==
  (Stopped /\ opened # {}) =>
    /\ \A i \in Inv :
         /\ chan[i] \notin {"connecting", "open"}
         /\ stream[i] # "live"
         /\ proc[i] \notin {"created", "wired"}
         /\ outCtx[i] # "running" /\ inCtx[i] # "running"
    /\ \A c \in chunks : c.st # "playing"
    /\ rafPending = {}

\* the await and the callbacks of call i have all run
Settled(i) ==
  /\ call[i] \in {"done", "caught"}
  /\ chan[i] # "connecting"
  /\ closing = {}

\* C6: a start during which stopConversation ran holds, once its await and
\* its callbacks have run, no microphone stream, no audio context, no
\* capture processor and no channel, and isConnected is false.
C6_NothingHeldAfterEarlyStop ==
  \A i \in stoppedMidStart : Settled(i) =>
    /\ stream[i] # "live"
    /\ outCtx[i] # "running" /\ inCtx[i] # "running"
    /\ proc[i] \notin {"created", "wired"}
    /\ chan[i] # "open"
    /\ ~isConnected

\* C7: at no time is there more than one live microphone stream, more than
\* one running output context or more than one channel that is open or
\* being opened.
C7_AtMostOneSession ==
  /\ Cardinality({i \in Inv : stream[i] = "live"}) <= 1
  /\ Cardinality({i \in Inv : outCtx[i] = "running"}) <= 1
  /\ Cardinality({i \in Inv : chan[i] \in {"connecting", "open"}}) <= 1

\* call i is the only startConversation call made so far
OnlyCall(i) == \A j \in Inv \ {i} : call[j] = "none"

\* C8: a start whose microphone request is rejected creates no audio
\* context, no processor and no channel, reports its error once, and leaves
\* the component with the error set, isConnected false and nothing held.
C8_MicDeniedIsClean ==
  \A i \in Inv : call[i] = "caught" =>
    /\ stream[i] = "none" /\ outCtx[i] = "none" /\ inCtx[i] = "none"
    /\ proc[i] = "none" /\ chan[i] = "none"
    /\ errCount[i] = 1
    /\ OnlyCall(i) =>
         (error = "Permission denied" /\ Released /\ ~stopThrew
            /\ closing = {} /\ rafPending = {})

\* C8 witness: the microphone request of a call was rejected.
C8_MicDenied == \E i \in Inv : call[i] = "caught" /\ error # "null"

\* C9: when the connect promise of a start is rejected, the error is
\* surfaced and the microphone stream, the audio contexts and the visualizer
\* loop of that start are released.
C9_RejectedConnectTornDown ==
  \A i \in Inv : (chan[i] = "rejected" /\ closing = {}) =>
    /\ error # "null"
    /\ stream[i] # "live"
    /\ outCtx[i] # "running" /\ inCtx[i] # "running"
    /\ i \notin rafPending
    /\ ~isConnected

\* C10: the onerror callback, in whatever state the session is, sets the
\* error to "Connection error" and does what stopConversation does.
C10_OnErrorTearsDown ==
  [][\A i \in Inv :
       (chan[i] \in {"connecting", "open"} /\ chan'[i] = "errored") =>
         (error' = "Connection error" /\ StopConversation)]_vars

\* C10 witness: onerror ran on a session that held its resources; they are
\* stopped and the error is shown.
C10_Errored ==
  \E i \in Inv :
    /\ chan[i] = "errored" /\ error = "Connection error"
    /\ stream[i] = "stopped" /\ outCtx[i] = "closed" /\ i \in opened

\* C11: the onclose callback, in whatever state the session is, does what
\* stopConversation does from that state, and nothing else to the refs, the
\* flags and the resources; the error is left as it was.
C11_OnCloseTearsDown ==
  [][\A i \in Inv :
       (chan[i] \in {"open", "errored"} /\ chan'[i] = "closed") =>
         (StopConversation /\ error' = error)]_vars

\* C11 witness: the server closed the channel of a connected session; its
\* microphone and output context are released and no error is shown.
C11_Closed ==
  \E i \in Inv :
    /\ chan[i] = "closed" /\ i \in opened /\ error = "null"
    /\ stream[i] = "stopped" /\ outCtx[i] = "closed" /\ closing = {}
    /\ ~isConnected

\* C12: after the audio of a message failed to decode the session is still
\* connected, an interruption flag of that message has been handled, and
\* isSpeaking is not left true with no chunk outstanding or being decoded.
C12_DecodeFailureNonFatal ==
  \A f \in failed :
    /\ chan[f.inv] = "open" /\ isConnected
    /\ f.intr => epoch > f.epoch
    /\ (sourcesRef = {} /\ decodes = {}) => ~isSpeaking

\* C13: within a session, a step that is not the handling of an interruption
\* (and not the start of the session) never decreases nextStartTimeRef.
C13_CursorMonotone ==
  [][(epoch' = epoch /\ call' = call) =>
       nextStartTimeRef' >= nextStartTimeRef]_vars

\* C13 witness: a second message was handled while the cursor was ahead of
\* the output clock, with a chunk scheduled and no interruption so far.
C13_CursorAhead ==
  /\ epoch = 0 /\ nMsgs >= 2 /\ lastSched.id # 0
  /\ nextStartTimeRef > clock[1]

\* the chunks that are scheduled and whose playback is not over
Unfinished == {c.id : c \in {x \in chunks : x.st = "playing"}}

\* C14: sourcesRef holds exactly the scheduled chunks whose playback is not
\* over; a chunk is in it from the step that schedules it, and the step in
\* which its playback ends at its natural end removes it and, when that
\* leaves the set empty, clears isSpeaking.
C14_OutstandingSetTracksPlayback ==
  /\ [](sourcesRef = Unfinished)
  /\ [][(lastSched' # lastSched /\ epoch' = epoch) =>
          lastSched'.id \in sourcesRef']_vars
  /\ [][\A c \in chunks :
          (c.st = "playing" /\ epoch' = epoch
             /\ \A x \in chunks' : x.id # c.id) =>
            /\ clock[c.inv] >= c.end
            /\ c.id \notin sourcesRef'
            /\ sourcesRef' = {} => ~isSpeaking']_vars

\* C14 witness: a chunk was scheduled and has played to its end with no
\* interruption; the set is empty again and isSpeaking is false.
C14_PlayedToEnd ==
  /\ lastSched.id # 0 /\ epoch = 0 /\ clock[1] >= lastSched.end
  /\ chunks = {} /\ sourcesRef = {} /\ decodes = {} /\ ~isSpeaking

\* ------------------------------------------------------- capture properties

\* C15: the frames are handed to sendRealtimeInput in the order they were
\* captured, those captured while sessionPromise was pending included, and
\* every captured frame is handed over or still waits for the promise.
C15_FramesInCaptureOrder ==
  /\ \A j, k \in 1..Len(sent) :
       (j < k /\ sent[j].inv = sent[k].inv) => sent[j].id < sent[k].id
  /\ Len(sent) + Len(queue) = nFrames
  /\ \A i \in resolved : QueueOf(i) = <<>>

\* C15 witness: two frames were captured while sessionPromise was pending
\* and a third after it was fulfilled; all three were handed over.
C15_QueuedThenSent ==
  /\ Len(sent) = 3
  /\ sent[1].queued /\ sent[2].queued /\ ~sent[3].queued

\* the frames of sent whose send threw
FailedSends == {k \in 1..Len(sent) : ~sent[k].ok}

\* C16: a send that throws is logged once and changes nothing else: the
\* refs set by start, the flags, the resources and the channel stay as they
\* were, and the frames captured after it are still handed over.
C16_SendFailureNonFatal ==
  /\ [](sendErrors = Cardinality(FailedSends))
  /\ [](Len(sent) + Len(queue) = nFrames)
  /\ [][sendErrors' > sendErrors =>
          UNCHANGED <<audioContextRef, mediaStreamRef, scriptProcessorRef,
                      sourcesRef, analyserRef, animationFrameRef, uiVars,
                      resVars, playVars, envVars>>]_vars

\* C16 witness: the send of a frame threw and the frame captured next was
\* handed over and sent.
C16_SentAfterFailure ==
  \E k \in 1..Len(sent) :
    /\ k < Len(sent) /\ ~sent[k].ok /\ sent[k + 1].ok
    /\ sendErrors = 1 /\ isConnected

\* ---------------------------------------------------- visualizer properties

\* C17: a draw loop that a stopConversation call found pending never
\* requests another animation frame (and so never samples again) after
\* that call, whatever starts and stops follow.
C17_NoTickAfterTeardown == revived = {}

\* ------------------------------------------------------ teardown properties

\* C18: when one release step of a stopConversation call has failed, the
\* call has thrown nothing and, once it has returned, every other release
\* step was performed and both flags are false.
C18_ReleaseStepsIndependent ==
  (stopFault.step # "none" /\ closing = {}) =>
    /\ ~stopThrew
    /\ ~isConnected /\ ~isSpeaking
    /\ stopFault.step # "track" => stream[stopFault.inv] = "stopped"
    /\ stopFault.step # "disconnect" => proc[stopFault.inv] = "disconnected"
    /\ stopFault.step # "source" => \A c \in chunks : c.st # "playing"
    /\ stopFault.step # "close" => outCtx[stopFault.inv] = "closed"
    /\ sourcesRef = {} /\ audioContextRef = 0

\* ------------------------------------------------------- restart properties

\* the step is one of a handler of session j: a message of its channel
\* arrives, a decode of one of its messages ends, one of its source nodes
\* fires 'ended', or one of its capture frames is handed over
StepOfSession(j) ==
  \/ \E d \in decodes' : d.inv = j /\ \A x \in decodes : x.id # d.id
  \/ \E d \in decodes : d.inv = j /\ \A x \in decodes' : x.id # d.id
  \/ \E c \in chunks : c.inv = j /\ \A x \in chunks' : x.id # c.id
  \/ Len(sent') > Len(sent) /\ sent'[Len(sent')].inv = j

\* C19: once session j was stopped and a later start has created session i,
\* no handler of session j changes the cursor, sourcesRef, isSpeaking or
\* sessionRef any more.
C19_NoStateReuse ==
  [][\A i, j \in Inv :
       (j < i /\ outCtx[j] = "closed" /\ j \notin closing
          /\ call[i] = "done" /\ audioContextRef = i /\ StepOfSession(j)) =>
         UNCHANGED <<nextStartTimeRef, sourcesRef, isSpeaking, sessionRef>>]_vars

\* ----------------------------------------------------- VeoStudio properties

\* C20: a generateVideo call submits the request at most twice; the second
\* time only after the first failed with entity-not-found or 403 and
\* openSelectKey was there and completed; and when the second fails the call
\* ends with the error set and nothing more submitted.
C20_AtMostOneRetry ==
  /\ submits <= 2
  /\ submits = 2 => (firstErr \in {"notfound", "403"} /\ reselected)
  /\ reselected => genPc # "reselect"
  /\ secondFailed =>
       (submits = 2 /\ genPc = "idle" /\ ~isGenerating /\ genError # "null")

\* C20 witness: the first request failed with 403, the key was selected
\* again, the second request failed too and the call ended with its error.
C20_SecondFailed ==
  /\ secondFailed /\ firstErr = "403" /\ submits = 2
  /\ genPc = "idle" /\ genError = "other"

\* ------------------------------------------ properties of pending decodes

\* the step schedules the chunk of the pending decode d
Schedules(d) ==
  /\ lastSched' # lastSched /\ lastSched'.id = d.id
  /\ \A x \in decodes' : x.id # d.id

\* C21: a chunk whose payload arrived before an interruption is not
\* scheduled after that interruption was handled: every chunk put into
\* sourcesRef arrived after the last interruption handled so far, so that
\* after an interruption sourcesRef stays empty until a payload that arrived
\* after it is scheduled.
C21_NoScheduleAcrossInterruption ==
  [][\A d \in decodes : Schedules(d) => d.arrEpoch = epoch]_vars

\* C22: of two chunks of one session that are scheduled with no interruption
\* between them, the one whose message arrived first (messages are numbered
\* in arrival order) is started earlier, also when both decodes were pending
\* together.
C22_ScheduledInArrivalOrder ==
  \A a, b \in chunks :
    (a.inv = b.inv /\ a.epoch = b.epoch /\ a.id < b.id) => a.when < b.when

\* C23: whenever sourcesRef holds a chunk, isSpeaking is true, under every
\* interleaving of messages, decodes, 'ended' events and interruptions.
C23_SpeakingWhileOutstanding == sourcesRef # {} => isSpeaking

\* ------------------------------------------------- state machine properties

\* a session was connected, stopConversation has returned and no start is
\* under way
Closed ==
  /\ opened # {} /\ Released /\ closing = {}
  /\ \A i \in Inv : call[i] # "mic"

\* C24: isSpeaking is true only while isConnected is; and from the return of
\* stopConversation to the next start, isSpeaking stays false and sourcesRef
\* stays empty, whatever the remote channel delivers.
C24_SpeakingOnlyWhileConnected ==
  /\ [](isSpeaking => isConnected)
  /\ [][(Closed /\ call' = call) =>
          (isSpeaking' = FALSE /\ sourcesRef' = {})]_vars

\* C25: from the return of stopConversation to the next start no capture
\* frame is handed to sendRealtimeInput and sessionRef stays null, also for
\* the frames whose callback was attached to sessionPromise before the stop.
C25_NoSendAfterStop ==
  [][(Closed /\ call' = call) => (sent' = sent /\ sessionRef' = 0)]_vars

\* C26: when a stopConversation call that awaited the close of context i
\* resumes while audioContextRef holds the context of a session that was
\* started meanwhile (and is not being stopped itself), the step leaves
\* audioContextRef as it is and, when that session is connected, leaves
\* isConnected and isSpeaking as they are.
C26_ResumedStopSparesNewSession ==
  [][\A i \in closing :
       (i \notin closing' /\ audioContextRef \notin {0, i}
          /\ audioContextRef \notin closing) =>
         /\ audioContextRef' = audioContextRef
         /\ chan[audioContextRef] = "open" =>
              (isConnected' = isConnected /\ isSpeaking' = isSpeaking)]_vars

=============================================================================
